---- MODULE Spec2Model ----
(***************************************************************************)
(* A model of gen-dylib (src/src/lib.rs): the ImportLibBuilder and the     *)
(* MS-COFF import-library archive it builds.  Strings and buffers are      *)
(* sequences of byte values (ASCII codes); the target is little-endian     *)
(* (arch() accepts x86 and x86_64 only), so NativeEndian is little-endian. *)
(***************************************************************************)
EXTENDS Integers, Sequences, FiniteSets, TLC

VARIABLES
    pc,         \* "builder": an ImportLibBuilder is being filled; "done": build() returned
    name,       \* ImportLibBuilder.name
    imports,    \* ImportLibBuilder.imports: sequence of [rust_name, import]
    machine,    \* the value arch() returns in this build of the crate
    import_lib, \* the Vec<u8> returned by build()
    sections,   \* CoffArchiveBuilder.sections when build_library lays the archive out
    symbols,    \* CoffArchiveBuilder.symbols (IndexMap) as a sequence of <<name, index>>
    starts,     \* import_lib.len() at each write_header call of build_library
    sym_arg,    \* arguments of a direct call of write_symbol
    sym_ret,    \* what that call wrote, or that it panicked
    wide_arg,   \* size profile of an import specification too large to enumerate
    wide_ret    \* the fields build_library stores for that profile

vars == <<pc, name, imports, machine, import_lib, sections, symbols, starts,
          sym_arg, sym_ret, wide_arg, wide_ret>>

-----------------------------------------------------------------------------
(* Bounds of the model *)

MaxEntries == 2
MaxSymNameLen == 9

-----------------------------------------------------------------------------
(* Program constants *)

IMAGE_SYM_CLASS_EXTERNAL == 0
IMAGE_SYM_CLASS_SECTION == 0
IMAGE_SYM_CLASS_STATIC == 0

COFF_HEADER_LEN == 20
COFF_SECTION_HEADER_LEN == 18
ARCHIVE_HEADER_LEN == 60
ARCHIVE_SIG == <<33, 60, 97, 114, 99, 104, 62, 10>>

IDATA2 == <<46, 105, 100, 97, 116, 97, 36, 50>>
IDATA3 == <<46, 105, 100, 97, 116, 97, 36, 51>>
IDATA4 == <<46, 105, 100, 97, 116, 97, 36, 52>>
IDATA5 == <<46, 105, 100, 97, 116, 97, 36, 53>>
IDATA6 == <<46, 105, 100, 97, 116, 97, 36, 54>>
IMPORT_DESCRIPTOR_PREFIX ==
    <<95, 95, 73, 77, 80, 79, 82, 84, 95, 68, 69, 83, 67, 82, 73, 80, 84, 79, 82, 95>>
NULL_IMPORT_DESCRIPTOR ==
    <<95, 95, 78, 85, 76, 76, 95, 73, 77, 80, 79, 82, 84, 95, 68, 69, 83, 67, 82, 73,
      80, 84, 79, 82>>
NULL_THUNK_DATA_SUFFIX ==
    <<95, 78, 85, 76, 76, 95, 84, 72, 85, 78, 75, 95, 68, 65, 84, 65>>
IMP_PREFIX == <<95, 95, 105, 109, 112, 95>>
DLL_SUFFIX == <<46, 100, 108, 108>>

\* section characteristics 0xC0300040, 0xC0200040, 0xC0400040 as written (little-endian)
FLAGS_C0300040 == <<64, 0, 48, 192>>
FLAGS_C0200040 == <<64, 0, 32, 192>>
FLAGS_C0400040 == <<64, 0, 64, 192>>

-----------------------------------------------------------------------------
(* Byte-level writers (byteorder::WriteBytesExt, std::fmt) *)

\* `x as u16`: the cast of a usize keeps the low 16 bits
AsU16(x) == x % 65536

\* write_u16::<NativeEndian>, write_u32::<NativeEndian>, write_u32::<BigEndian>.
\* The 32-bit writers take the usize itself and keep its low 32 bits, which is
\* what `x as u32` followed by the write does.
U16LE(x) == <<x % 256, (x \div 256) % 256>>
U32LE(x) == <<x % 256, (x \div 256) % 256, (x \div 65536) % 256, (x \div 16777216) % 256>>
U32BE(x) == <<(x \div 16777216) % 256, (x \div 65536) % 256, (x \div 256) % 256, x % 256>>
\* write_u64::<NativeEndian>(0)
U64LE_Zero == U32LE(0) \o U32LE(0)

Zeros(n) == [i \in 1..n |-> 0]
Spaces(n) == [i \in 1..n |-> 32]

\* format!("{}", n) of a non-negative integer
RECURSIVE Decimal(_)
Decimal(n) == IF n < 10 THEN <<48 + n>> ELSE Append(Decimal(n \div 10), 48 + (n % 10))

\* format!("{:<w}", s): s, then spaces up to width w; a longer s is kept whole
LeftJustify(s, w) == IF Len(s) >= w THEN s ELSE s \o Spaces(w - Len(s))

\* str::ends_with
EndsWith(s, suffix) ==
    /\ Len(s) >= Len(suffix)
    /\ SubSeq(s, Len(s) - Len(suffix) + 1, Len(s)) = suffix

\* Bind(e, F) is F(e) with e evaluated once: `let v = e; F(v)`
Bind(e, F(_)) == CHOOSE r \in { F(v) : v \in {e} } : TRUE

\* concatenation of a sequence of byte strings, each followed by a zero byte
RECURSIVE CStrings(_)
CStrings(ss) == IF ss = <<>> THEN <<>> ELSE Head(ss) \o <<0>> \o CStrings(Tail(ss))

\* concatenation of a sequence of byte strings
RECURSIVE Concat(_)
Concat(ss) == IF ss = <<>> THEN <<>> ELSE Head(ss) \o Concat(Tail(ss))

-----------------------------------------------------------------------------
(* fn arch() *)

ArchValues == {34404, 332}   \* 0x8664, 0x014C

-----------------------------------------------------------------------------
(* fn write_header: the 60-byte archive member header *)

write_header(nm, len) ==
    LET n == (IF Len(nm) > 15 THEN SubSeq(nm, 1, 15) ELSE nm) \o <<47>>
    IN  LeftJustify(n, 16)
        \o LeftJustify(<<45, 49>>, 12)
        \o Spaces(6)
        \o Spaces(6)
        \o LeftJustify(Decimal(0), 8)
        \o LeftJustify(Decimal(len), 10) \o <<96, 10>>

-----------------------------------------------------------------------------
(* fn write_symbol: one COFF symbol-table entry.  A SymbolName is          *)
(* [kind |-> "Name", name |-> bytes] or [kind |-> "Offset", o |-> n].  The *)
(* result is [ok |-> FALSE] for a panic, [ok |-> TRUE, bytes |-> ..] else. *)

SymName(s) == [kind |-> "Name", name |-> s]
SymOffset(o) == [kind |-> "Offset", o |-> o]

write_symbol(nm, section, sym_ty) ==
    IF nm.kind = "Name" /\ Len(nm.name) < 8
    THEN [ok |-> FALSE, bytes |-> <<>>]      \* &name.as_bytes()[0..8] is out of range
    ELSE [ok |-> TRUE,
          bytes |-> (IF nm.kind = "Name"
                     THEN SubSeq(nm.name, 1, 8)
                     ELSE U32LE(0) \o U32LE(nm.o))
                    \o U32LE(0) \o U16LE(section) \o U16LE(0) \o <<sym_ty>> \o <<0>>]

\* the calls in the object-member builders all pass 8-byte literals or offsets
Sym(nm, section, sym_ty) == write_symbol(nm, section, sym_ty).bytes

-----------------------------------------------------------------------------
(* The three COFF object members.  Each builder returns the exported name, *)
(* the blob, and the positions in the blob at which its parts were written *)
(* (buffer.len() when the write happened).                                 *)

\* `name`: archive_name without a trailing ".dll"
ModuleStem(archive_name) ==
    IF EndsWith(archive_name, DLL_SUFFIX)
    THEN SubSeq(archive_name, 1, Len(archive_name) - 4)
    ELSE archive_name

\* one section header as the builders write it: 8-byte name, VirtualSize,
\* VirtualAddress, SizeOfRawData, PointerToRawData, PointerToRelocations,
\* PointerToLinenumbers, NumberOfRelocations, NumberOfLinenumbers, Characteristics
SectionHeader(secname, size, raw_ptr, reloc_ptr, n_relocs, flags) ==
    secname \o U32LE(0) \o U32LE(0) \o U32LE(size) \o U32LE(raw_ptr)
    \o U32LE(reloc_ptr) \o U32LE(0) \o U16LE(n_relocs) \o U16LE(0) \o flags

\* the 20-byte COFF file header
CoffHeader(mach, n_sections, data_len, n_symbols) ==
    U16LE(mach) \o U16LE(n_sections) \o U32LE(0) \o U32LE(data_len)
    \o U32LE(n_symbols) \o U16LE(0) \o U16LE(0)

\* one relocation entry
Reloc(va, symidx) == U32LE(va) \o U32LE(symidx) \o U16LE(3)

\* `if buffer.len() % 2 != 0 { buffer.write_u8(b'\0') }`
PadBlob(buffer) == IF Len(buffer) % 2 # 0 THEN Append(buffer, 0) ELSE buffer

\* string_start after the name of a string-table symbol has been appended
AdvanceStringStart(string_start, nm) == string_start + Len(nm)

build_import_descriptor(archive_name, mach) ==
    LET stem == ModuleStem(archive_name)
        import_desc_name == IMPORT_DESCRIPTOR_PREFIX \o stem
        null_import_data == NULL_IMPORT_DESCRIPTOR
        null_thunk_data == <<127>> \o stem \o NULL_THUNK_DATA_SUFFIX
        N_SECTIONS == 2
        N_SYMBOLS == 7
        N_RECLOCATIONS == 3
        data_len == COFF_HEADER_LEN + N_SECTIONS * COFF_SECTION_HEADER_LEN
                    + 20 + N_RECLOCATIONS * 10 + Len(archive_name) + 1
        hdr == CoffHeader(mach, N_SECTIONS, data_len, N_SYMBOLS)
        sh1 == SectionHeader(IDATA2, 20,
                   COFF_HEADER_LEN + N_SECTIONS * COFF_SECTION_HEADER_LEN,
                   COFF_HEADER_LEN + N_SECTIONS * COFF_SECTION_HEADER_LEN + 20,
                   N_RECLOCATIONS, FLAGS_C0300040)
        sh2 == SectionHeader(IDATA6, Len(archive_name) + 1,
                   data_len - (Len(archive_name) + 1), 0, 0, FLAGS_C0200040)
        b_hdrs == hdr \o sh1 \o sh2
        b_sec2 == b_hdrs \o Zeros(20)
        b_rel == b_sec2 \o Reloc(12, 2) \o Reloc(0, 3) \o Reloc(16, 4)
        b_sec6 == b_rel \o archive_name \o <<0>>
        string_start0 == 4
        string_start1 == AdvanceStringStart(string_start0, import_desc_name)
        string_start2 == AdvanceStringStart(string_start1, null_import_data)
        symtab == Sym(SymOffset(string_start0), 1, IMAGE_SYM_CLASS_EXTERNAL)
                  \o Sym(SymName(IDATA2), 1, IMAGE_SYM_CLASS_SECTION)
                  \o Sym(SymName(IDATA6), 2, IMAGE_SYM_CLASS_STATIC)
                  \o Sym(SymName(IDATA4), 0, IMAGE_SYM_CLASS_SECTION)
                  \o Sym(SymName(IDATA5), 0, IMAGE_SYM_CLASS_SECTION)
                  \o Sym(SymOffset(string_start1), 0, IMAGE_SYM_CLASS_EXTERNAL)
                  \o Sym(SymOffset(string_start2), 0, IMAGE_SYM_CLASS_EXTERNAL)
        string_table == CStrings(<<import_desc_name, null_import_data, null_thunk_data>>)
        b_sym == b_sec6 \o symtab
        buffer == b_sym \o U32LE(Len(string_table)) \o string_table
    IN  [name |-> import_desc_name,
         data |-> PadBlob(buffer),
         n_sections |-> N_SECTIONS,
         raw_at |-> <<Len(b_hdrs), Len(b_rel)>>,   \* where .idata$2 / .idata$6 data went
         reloc_at |-> Len(b_sec2),                 \* where the first relocation went
         symtab_at |-> Len(b_sec6),                \* where the first symbol entry went
         strtab_at |-> Len(b_sym),                 \* where the string-table length went
         offset_syms |-> <<1, 6, 7>>,              \* entries written with SymbolName::Offset
         offset_names |-> <<import_desc_name, null_import_data, null_thunk_data>>]

build_null_import_descriptor(mach) ==
    LET null_import_data == NULL_IMPORT_DESCRIPTOR
        N_SECTIONS == 1
        N_SYMBOLS == 1
        data_len == COFF_HEADER_LEN + N_SECTIONS * COFF_SECTION_HEADER_LEN + 20
        hdr == CoffHeader(mach, N_SECTIONS, data_len, N_SYMBOLS)
        sh1 == SectionHeader(IDATA3, 20,
                   COFF_HEADER_LEN + N_SECTIONS * COFF_SECTION_HEADER_LEN, 0, 0, FLAGS_C0300040)
        b_hdrs == hdr \o sh1
        b_sec3 == b_hdrs \o Zeros(20)
        string_start == 4
        b_sym == b_sec3 \o Sym(SymOffset(string_start), 1, IMAGE_SYM_CLASS_EXTERNAL)
        string_table == CStrings(<<null_import_data>>)
        buffer == b_sym \o U32LE(Len(string_table)) \o string_table
    IN  [name |-> null_import_data,
         data |-> PadBlob(buffer),
         n_sections |-> N_SECTIONS,
         raw_at |-> <<Len(b_hdrs)>>,
         reloc_at |-> 0,
         symtab_at |-> Len(b_sec3),
         strtab_at |-> Len(b_sym),
         offset_syms |-> <<1>>,
         offset_names |-> <<null_import_data>>]

build_null_thunk_data(archive_name, mach) ==
    LET stem == ModuleStem(archive_name)
        null_thunk_data == <<127>> \o stem \o NULL_THUNK_DATA_SUFFIX
        va_size == 8
        N_SECTIONS == 2
        N_SYMBOLS == 1
        data_len == COFF_HEADER_LEN + N_SECTIONS * COFF_SECTION_HEADER_LEN
                    + va_size + va_size
        hdr == CoffHeader(mach, N_SECTIONS, data_len, N_SYMBOLS)
        sh1 == SectionHeader(IDATA5, va_size,
                   COFF_HEADER_LEN + N_SECTIONS * COFF_SECTION_HEADER_LEN, 0, 0, FLAGS_C0400040)
        sh2 == SectionHeader(IDATA4, va_size,
                   COFF_HEADER_LEN + N_SECTIONS * COFF_SECTION_HEADER_LEN + va_size,
                   0, 0, FLAGS_C0400040)
        b_hdrs == hdr \o sh1 \o sh2
        b_sec5 == b_hdrs \o U64LE_Zero
        b_sec4 == b_sec5 \o U64LE_Zero
        string_start == 4
        b_sym == b_sec4 \o Sym(SymOffset(string_start), 1, IMAGE_SYM_CLASS_EXTERNAL)
        string_table == CStrings(<<null_thunk_data>>)
        buffer == b_sym \o U32LE(Len(string_table)) \o string_table
    IN  [name |-> null_thunk_data,
         data |-> PadBlob(buffer),
         n_sections |-> N_SECTIONS,
         raw_at |-> <<Len(b_hdrs), Len(b_sec5)>>,
         reloc_at |-> 0,
         symtab_at |-> Len(b_sec4),
         strtab_at |-> Len(b_sym),
         offset_syms |-> <<1>>,
         offset_names |-> <<null_thunk_data>>]

-----------------------------------------------------------------------------
(* enum Import *)

ImportName(s) == [kind |-> "Name", s |-> s, o |-> 0]
ImportOrdinal(o) == [kind |-> "Ordinal", s |-> <<>>, o |-> o]

\* Import::name().unwrap_or_default()
item_name_of(import) == IF import.kind = "Name" THEN import.s ELSE <<>>

\* Import::ordinal().unwrap_or_default()
ordinal_of(import) == IF import.kind = "Ordinal" THEN import.o ELSE 0

\* the test of import_name_type taken on the name instead of the ordinal
import_name_type_Swapped(import) == IF import.kind = "Name" THEN 0 ELSE 1

\* import_name_type: IMPORT_ORDINAL (0) or IMPORT_NAME (1)
import_name_type(import) == IF import.kind = "Ordinal" THEN 0 ELSE 1

-----------------------------------------------------------------------------
(* struct CoffArchiveBuilder: [symbols, sections, archive_name] *)

\* IndexMap::insert: a new key goes last; an existing key keeps its place
\* and takes the new value
IndexMapInsert(m, key, val) ==
    IF \E i \in 1..Len(m) : m[i][1] = key
    THEN [i \in 1..Len(m) |-> IF m[i][1] = key THEN <<key, val>> ELSE m[i]]
    ELSE Append(m, <<key, val>>)

IndexMapGet(m, key) == LET i == CHOOSE i \in 1..Len(m) : m[i][1] = key IN m[i][2]
IndexMapHas(m, key) == \E i \in 1..Len(m) : m[i][1] = key

CoffArchiveBuilder_new(nm) == [symbols |-> <<>>, sections |-> <<>>, archive_name |-> nm]

\* symbols.insert(name, index) for each of the names in turn
RECURSIVE InsertAll(_, _, _)
InsertAll(m, member_names, index) ==
    IF member_names = <<>> THEN m
    ELSE Bind(IndexMapInsert(m, Head(member_names), index),
              LAMBDA m1 : InsertAll(m1, Tail(member_names), index))

\* self.sections.push(data); self.symbols.insert(name, self.sections.len())
PushMember(ab, member_names, data) ==
    Bind(Append(ab.sections, data),
         LAMBDA secs : [symbols |-> InsertAll(ab.symbols, member_names, Len(secs)),
                        sections |-> secs,
                        archive_name |-> ab.archive_name])

\* let (name, data) = d; push the member
PushBuilt(ab, d) == PushMember(ab, <<d.name>>, d.data)

\* the descriptors without the null thunk data member
add_import_descriptors_NoThunk(ab, mach) ==
    Bind(build_import_descriptor(ab.archive_name, mach), LAMBDA d1 :
    Bind(PushBuilt(ab, d1), LAMBDA ab1 :
    Bind(build_null_import_descriptor(mach), LAMBDA d2 :
    PushBuilt(ab1, d2))))

add_import_descriptors(ab, mach) ==
    Bind(build_import_descriptor(ab.archive_name, mach), LAMBDA d1 :
    Bind(PushBuilt(ab, d1), LAMBDA ab1 :
    Bind(build_null_import_descriptor(mach), LAMBDA d2 :
    Bind(PushBuilt(ab1, d2), LAMBDA ab2 :
    Bind(build_null_thunk_data(ab.archive_name, mach), LAMBDA d3 :
    PushBuilt(ab2, d3))))))

\* the short-import record of add_short_import
short_import_record(dll_name, import, mach) ==
    LET item_name == item_name_of(import)
        size == Len(dll_name) + Len(item_name) + 2
        ordinal == ordinal_of(import)
        import_type == 0
    IN  U16LE(0) \o U16LE(65535) \o U16LE(0) \o U16LE(mach) \o U32LE(0)
        \o U32LE(size) \o U16LE(ordinal)
        \o U16LE(AsU16(import_type + import_name_type(import) * 4))
        \o item_name \o <<0>> \o dll_name \o <<0>>

add_short_import(ab, rust_name, import, mach) ==
    Bind(short_import_record(ab.archive_name, import, mach),
         LAMBDA short_import :
             PushMember(ab, <<IMP_PREFIX \o rust_name, rust_name>>, short_import))

\* for (name, import) in &imports.imports { archive_builder.add_short_import(..)? }
RECURSIVE AddShortImports(_, _, _)
AddShortImports(ab, imps, mach) ==
    IF imps = <<>> THEN ab
    ELSE Bind(add_short_import(ab, Head(imps).rust_name, Head(imps).import, mach),
              LAMBDA ab1 : AddShortImports(ab1, Tail(imps), mach))

-----------------------------------------------------------------------------
(* fn build_library: the archive layout *)

\* symbols.iter().map(|s| s.0.len() + 1).sum()
RECURSIVE symbol_table_len(_)
symbol_table_len(syms) ==
    IF syms = <<>> THEN 0 ELSE Len(Head(syms)[1]) + 1 + symbol_table_len(Tail(syms))

first_linker_len(n_symbols, table_len) == 4 + 4 * n_symbols + table_len
second_linker_len(members, n_symbols, table_len) ==
    8 + 4 * members + 2 * n_symbols + table_len

\* `if import_start % 2 != 0 { import_start += 1 }`
RoundEven(import_start) == IF import_start % 2 # 0 THEN import_start + 1 ELSE import_start

\* import_start after the two linker members
FirstImportStart(first_len, second_len) ==
    RoundEven(RoundEven(Len(ARCHIVE_SIG) + ARCHIVE_HEADER_LEN + first_len)
              + ARCHIVE_HEADER_LEN + second_len)

\* import_start advanced without the rounding to an even position
NextImportStart_NoPad(import_start, d_len) == import_start + ARCHIVE_HEADER_LEN + d_len

\* import_start after one more regular member of d_len bytes
NextImportStart(import_start, d_len) == RoundEven(import_start + ARCHIVE_HEADER_LEN + d_len)

\* for d in &archive_builder.sections { offsets.push(import_start); ... }
RECURSIVE ComputeOffsets(_, _)
ComputeOffsets(secs, import_start) ==
    IF secs = <<>> THEN <<>>
    ELSE Bind(NextImportStart(import_start, Len(Head(secs))),
              LAMBDA next : <<import_start>> \o ComputeOffsets(Tail(secs), next))

\* padding with a newline, as ar archives of other toolchains do
PadEven_Newline(buf) == IF Len(buf) % 2 # 0 THEN Append(buf, 10) ELSE buf

\* `if import_lib.len() % 2 != 0 { import_lib.write_u8(b'\0') }`
PadEven(buf) == IF Len(buf) % 2 # 0 THEN Append(buf, 0) ELSE buf

\* symbols.sort_by_key(|c| c.1): a stable sort, here by insertion
RECURSIVE InsertByKey(_, _)
InsertByKey(sorted, e) ==
    IF sorted = <<>> THEN <<e>>
    ELSE IF Head(sorted)[2] <= e[2] THEN <<Head(sorted)>> \o InsertByKey(Tail(sorted), e)
    ELSE <<e>> \o sorted

RECURSIVE StableSort(_)
StableSort(syms) ==
    IF syms = <<>> THEN <<>>
    ELSE InsertByKey(StableSort(SubSeq(syms, 1, Len(syms) - 1)), syms[Len(syms)])

\* the symbols left in insertion order
SortByMember_Unsorted(syms) == syms

SortByMember(syms) == StableSort(syms)

SymbolNames(syms) == [i \in 1..Len(syms) |-> syms[i][1]]

\* the payload of the first linker member
FirstLinkerPayload(syms, offsets) ==
    U32BE(Len(syms))
    \o Concat([i \in 1..Len(syms) |-> U32BE(offsets[syms[i][2]])])
    \o CStrings(SymbolNames(syms))

\* the payload of the second linker member
SecondLinkerPayload(members, sorted, offsets) ==
    U32LE(members)
    \o Concat([i \in 1..Len(offsets) |-> U32LE(offsets[i])])
    \o U32LE(Len(sorted))
    \o Concat([i \in 1..Len(sorted) |-> U16LE(AsU16(sorted[i][2]))])
    \o CStrings(SymbolNames(sorted))

\* one regular member: write_header, write_all, pad; out is [buf, starts]
WriteMember(out, nm, data) ==
    [buf |-> PadEven(out.buf \o write_header(nm, Len(data)) \o data),
     starts |-> Append(out.starts, Len(out.buf))]

\* for data in archive_builder.sections { write_header; write_all; pad }
RECURSIVE WriteMembers(_, _, _)
WriteMembers(out, nm, secs) ==
    IF secs = <<>> THEN out
    ELSE Bind(WriteMember(out, nm, Head(secs)),
              LAMBDA out1 : WriteMembers(out1, nm, Tail(secs)))

\* the sizes and offsets computed before anything is written
Layout(ab) ==
    Bind(symbol_table_len(ab.symbols), LAMBDA table_len :
    Bind(first_linker_len(Len(ab.symbols), table_len), LAMBDA first_len :
    Bind(second_linker_len(Len(ab.sections), Len(ab.symbols), table_len), LAMBDA second_len :
    Bind(FirstImportStart(first_len, second_len), LAMBDA import_start :
        [first_linker_len |-> first_len,
         second_linker_len |-> second_len,
         offsets |-> ComputeOffsets(ab.sections, import_start)]))))

\* the signature and the first linker member, padded
EmitFirstLinker(ab, lay) ==
    PadEven(ARCHIVE_SIG \o write_header(<<>>, lay.first_linker_len)
            \o FirstLinkerPayload(ab.symbols, lay.offsets))

\* the second linker member appended, padded
EmitSecondLinker(b1, ab, lay) ==
    Bind(SortByMember(ab.symbols), LAMBDA sorted :
        PadEven(b1 \o write_header(<<>>, lay.second_linker_len)
                \o SecondLinkerPayload(Len(ab.sections), sorted, lay.offsets)))

build_library(nm, imps, mach) ==
    Bind(add_import_descriptors(CoffArchiveBuilder_new(nm), mach), LAMBDA ab0 :
    Bind(AddShortImports(ab0, imps, mach), LAMBDA ab :
    Bind(Layout(ab), LAMBDA lay :
    Bind(EmitFirstLinker(ab, lay), LAMBDA b1 :
    Bind(EmitSecondLinker(b1, ab, lay), LAMBDA b2 :
    Bind(WriteMembers([buf |-> b2, starts |-> <<Len(ARCHIVE_SIG), Len(b1)>>],
                      nm, ab.sections), LAMBDA out :
        [import_lib |-> out.buf,
         starts |-> out.starts,
         sections |-> ab.sections,
         symbols |-> ab.symbols]))))))

-----------------------------------------------------------------------------
(* The builder: ImportLibBuilder::new, import_name, import_ordinal, build *)

ModuleNames ==
    { <<97>>,                                   \* "a"
      <<97, 98, 46, 100, 108, 108>>,            \* "ab.dll"
      <<97, 98, 99, 100, 101, 102, 103, 104, 105, 106, 107, 108, 109, 110, 111, 112, 113>> }

RustNames ==
    { <<102>>,                                  \* "f"
      <<103, 103>>,                             \* "gg"
      <<95, 95, 105, 109, 112, 95, 102>> }      \* "__imp_f"

LibNames == { <<102>>, <<97, 100>> }            \* "f", "ad"
Ordinals == { 3, 65535 }

NoSym == [ok |-> FALSE, bytes |-> <<>>]
NoWide == [n |-> 0]

IdleRest ==
    /\ sym_arg = <<>> /\ sym_ret = NoSym
    /\ wide_arg = NoWide /\ wide_ret = NoWide

Init ==
    /\ pc = "builder"
    /\ name \in ModuleNames
    /\ imports = <<>>
    /\ machine \in ArchValues
    /\ import_lib = <<>>
    /\ sections = <<>>
    /\ symbols = <<>>
    /\ starts = <<>>
    /\ IdleRest

import_name(rust_name, lib_name) ==
    /\ pc = "builder"
    /\ Len(imports) < MaxEntries
    /\ imports' = Append(imports, [rust_name |-> rust_name, import |-> ImportName(lib_name)])
    /\ UNCHANGED <<pc, name, machine, import_lib, sections, symbols, starts,
                   sym_arg, sym_ret, wide_arg, wide_ret>>

import_ordinal(rust_name, lib_ordinal) ==
    /\ pc = "builder"
    /\ Len(imports) < MaxEntries
    /\ imports' = Append(imports, [rust_name |-> rust_name,
                                   import |-> ImportOrdinal(lib_ordinal)])
    /\ UNCHANGED <<pc, name, machine, import_lib, sections, symbols, starts,
                   sym_arg, sym_ret, wide_arg, wide_ret>>

build ==
    /\ pc = "builder"
    /\ \E r \in {build_library(name, imports, machine)} :
           /\ import_lib' = r.import_lib
           /\ starts' = r.starts
           /\ sections' = r.sections
           /\ symbols' = r.symbols
    /\ pc' = "done"
    /\ UNCHANGED <<name, imports, machine, sym_arg, sym_ret, wide_arg, wide_ret>>

Next ==
    \/ \E r \in RustNames, l \in LibNames : import_name(r, l)
    \/ \E r \in RustNames, o \in Ordinals : import_ordinal(r, o)
    \/ build

Spec == Init /\ [][Next]_vars

-----------------------------------------------------------------------------
(* Reading an archive back, as a linker does *)

RdU16LE(buf, at) == buf[at + 1] + 256 * buf[at + 2]
RdU32LE(buf, at) ==
    buf[at + 1] + 256 * buf[at + 2] + 65536 * buf[at + 3] + 16777216 * buf[at + 4]
RdU32BE(buf, at) ==
    16777216 * buf[at + 1] + 65536 * buf[at + 2] + 256 * buf[at + 3] + buf[at + 4]

\* the bytes of buf from position `at` (0-based) up to the next zero byte
RECURSIVE RdCStr(_, _)
RdCStr(buf, at) ==
    IF at >= Len(buf) \/ buf[at + 1] = 0 THEN <<>>
    ELSE <<buf[at + 1]>> \o RdCStr(buf, at + 1)

\* n consecutive null-terminated strings starting at `at`
RECURSIVE RdCStrings(_, _, _)
RdCStrings(buf, at, n) ==
    IF n = 0 THEN <<>>
    ELSE LET s == RdCStr(buf, at) IN <<s>> \o RdCStrings(buf, at + Len(s) + 1, n - 1)

\* a left-justified decimal field: digits, then spaces; -1 if it is not one
RECURSIVE RdDecimalFrom(_, _)
RdDecimalFrom(field, acc) ==
    IF field = <<>> \/ Head(field) = 32 THEN acc
    ELSE IF Head(field) \in 48..57 THEN RdDecimalFrom(Tail(field), 10 * acc + Head(field) - 48)
    ELSE -1
RdDecimal(field) ==
    IF field = <<>> \/ Head(field) \notin 48..57 THEN -1 ELSE RdDecimalFrom(field, 0)

\* the archive members found by walking the headers from position `at`:
\* [at, size], the walk stopping with size -1 at anything that is no header
RECURSIVE RdMembers(_, _)
RdMembers(buf, at) ==
    IF at >= Len(buf) THEN <<>>
    ELSE IF at + ARCHIVE_HEADER_LEN > Len(buf) \/ <<buf[at + 59], buf[at + 60]>> # <<96, 10>>
         THEN <<[at |-> at, size |-> -1]>>
    ELSE LET size == RdDecimal(SubSeq(buf, at + 49, at + 58))
             end == at + ARCHIVE_HEADER_LEN + size
         IN  IF size < 0 \/ end > Len(buf) THEN <<[at |-> at, size |-> -1]>>
             ELSE <<[at |-> at, size |-> size]>>
                  \o RdMembers(buf, IF end % 2 # 0 THEN end + 1 ELSE end)

Archive == IF SubSeq(import_lib, 1, 8) = ARCHIVE_SIG THEN RdMembers(import_lib, 8) ELSE <<>>
Payload(m) == SubSeq(import_lib, m.at + ARCHIVE_HEADER_LEN + 1,
                     m.at + ARCHIVE_HEADER_LEN + m.size)

\* the first linker member as read from the archive
FirstLinker ==
    LET at == Archive[1].at + ARCHIVE_HEADER_LEN
        n == RdU32BE(import_lib, at)
    IN  [n_symbols |-> n,
         offsets |-> [k \in 1..n |-> RdU32BE(import_lib, at + 4 * k)],
         names |-> RdCStrings(import_lib, at + 4 + 4 * n, n)]

\* the second linker member as read from the archive
SecondLinker ==
    LET at == Archive[2].at + ARCHIVE_HEADER_LEN
        m == RdU32LE(import_lib, at)
        n == RdU32LE(import_lib, at + 4 + 4 * m)
    IN  [members |-> m,
         offsets |-> [i \in 1..m |-> RdU32LE(import_lib, at + 4 * i)],
         n_symbols |-> n,
         indices |-> [k \in 1..n |-> RdU16LE(import_lib, at + 8 + 4 * m + 2 * (k - 1))],
         names |-> RdCStrings(import_lib, at + 8 + 4 * m + 2 * n, n)]

Built == pc = "done"

-----------------------------------------------------------------------------
(* write_symbol called on its own, with literal names of any length *)

SymAlphabet == {46, 97}
LiteralNames == UNION { [1..n -> SymAlphabet] : n \in 7..MaxSymNameLen }
SymArgs ==
    [nm : { SymName(s) : s \in LiteralNames } \cup { SymOffset(o) : o \in {4, 25} },
     section : {0, 1, 2},
     sym_ty : {IMAGE_SYM_CLASS_EXTERNAL}]

IdleBuilder ==
    /\ name = <<>> /\ imports = <<>> /\ machine = 34404
    /\ import_lib = <<>> /\ sections = <<>> /\ symbols = <<>> /\ starts = <<>>

InitSym ==
    /\ pc = "sym_call"
    /\ sym_arg \in SymArgs
    /\ sym_ret = NoSym
    /\ wide_arg = NoWide /\ wide_ret = NoWide
    /\ IdleBuilder

call_write_symbol ==
    /\ pc = "sym_call"
    /\ sym_ret' = write_symbol(sym_arg.nm, sym_arg.section, sym_arg.sym_ty)
    /\ pc' = "sym_done"
    /\ UNCHANGED <<name, imports, machine, import_lib, sections, symbols, starts,
                   sym_arg, wide_arg, wide_ret>>

NextSym == call_write_symbol

SpecSym == InitSym /\ [][NextSym]_vars

-----------------------------------------------------------------------------
(* build_library on import specifications of tens of thousands of entries. *)
(* Such a specification is given by its sizes: n entries with distinct     *)
(* exposed names of exposed_len bytes each, every imported name of         *)
(* item_len bytes.  The layout depends on the sizes only, and is computed  *)
(* with the same definitions as above.                                     *)

WideCounts == {0, 1, 2, 65531, 65532, 65533, 65534}
WideExposedLens == {5, 6}
WideItemLens == {0, 1, 2}

WideArgs ==
    [nm : ModuleNames, n : WideCounts, exposed_len : WideExposedLens,
     item_len : WideItemLens]

\* what build_library computes and stores for a size profile: the member
\* count, the index of the last symbol of the second linker member (it is
\* bound to the last member), and the offset of the last member
build_library_sizes(a, mach) ==
    LET d1 == build_import_descriptor(a.nm, mach)
        d2 == build_null_import_descriptor(mach)
        d3 == build_null_thunk_data(a.nm, mach)
        rec_len == 20 + a.item_len + 1 + Len(a.nm) + 1
        members == 3 + a.n
        n_symbols == 3 + 2 * a.n
        table_len == (Len(d1.name) + 1) + (Len(d2.name) + 1) + (Len(d3.name) + 1)
                     + a.n * ((Len(IMP_PREFIX) + a.exposed_len + 1) + (a.exposed_len + 1))
        first_len == first_linker_len(n_symbols, table_len)
        second_len == second_linker_len(members, n_symbols, table_len)
        o1 == FirstImportStart(first_len, second_len)
        o2 == NextImportStart(o1, Len(d1.data))
        o3 == NextImportStart(o2, Len(d2.data))
        o4 == NextImportStart(o3, Len(d3.data))
        last_offset == IF a.n = 0 THEN o3 ELSE o4 + (a.n - 1) * NextImportStart(0, rec_len)
    IN  [ok |-> TRUE,                       \* Ok(import_lib): no write to a Vec fails
         n |-> a.n,
         members |-> members,
         last_offset |-> last_offset,
         member_count_field |-> RdU32LE(U32LE(members), 0),
         last_offset_field |-> RdU32LE(U32LE(last_offset), 0),
         last_index_field |-> RdU16LE(U16LE(AsU16(members)), 0)]

InitWide ==
    /\ pc = "wide_call"
    /\ wide_arg \in WideArgs
    /\ wide_ret = NoWide
    /\ sym_arg = <<>> /\ sym_ret = NoSym
    /\ IdleBuilder

build_wide ==
    /\ pc = "wide_call"
    /\ wide_ret' = build_library_sizes(wide_arg, machine)
    /\ pc' = "wide_done"
    /\ UNCHANGED <<name, imports, machine, import_lib, sections, symbols, starts,
                   sym_arg, sym_ret, wide_arg>>

NextWide == build_wide

SpecWide == InitWide /\ [][NextWide]_vars

-----------------------------------------------------------------------------
(* Properties of the built archive *)

\* the regular members of the archive as read back: Archive without the linker members
Regular(i) == Archive[2 + i]

\* C1: every offset of the first linker member is the position in the
\* returned buffer at which the archive header of the member owning that
\* symbol begins: the position write_header was called at for that member,
\* where a 60-byte header and then the member's bytes are found.
C1_OffsetConsistency ==
    Built =>
        /\ FirstLinker.n_symbols = Len(symbols)
        /\ \A k \in 1..FirstLinker.n_symbols :
              LET nm == FirstLinker.names[k]
                  off == FirstLinker.offsets[k]
              IN  /\ IndexMapHas(symbols, nm)
                  /\ LET m == IndexMapGet(symbols, nm)
                     IN  /\ off = starts[2 + m]
                         /\ off = Regular(m).at
                         /\ SubSeq(import_lib, off + 1, off + ARCHIVE_HEADER_LEN)
                                = write_header(name, Len(sections[m]))
                         /\ SubSeq(import_lib, off + ARCHIVE_HEADER_LEN + 1,
                                   off + ARCHIVE_HEADER_LEN + Len(sections[m]))
                                = sections[m]

\* a built archive in which a member of odd length is followed by another member
C1_Witness ==
    /\ Built
    /\ \E m \in 1..(Len(sections) - 1) : Len(sections[m]) % 2 = 1
    /\ \E k \in 1..FirstLinker.n_symbols :
          FirstLinker.offsets[k] = starts[Len(starts)]

\* C2: the archive holds 2 linker members and then 3 + N regular members:
\* import descriptor, null import descriptor, null thunk data, then the
\* short import of each entry in insertion order, duplicates included; the
\* member count of the second linker member is 3 + N.
C2_Structure ==
    Built =>
        LET n == Len(imports)
        IN  /\ Len(Archive) = 2 + 3 + n
            /\ \A i \in 1..Len(Archive) : Archive[i].size >= 0
            /\ \A i \in 1..2 :
                  SubSeq(import_lib, Archive[i].at + 1, Archive[i].at + 16)
                      = <<47>> \o Spaces(15)
            /\ Payload(Regular(1)) = build_import_descriptor(name, machine).data
            /\ Payload(Regular(2)) = build_null_import_descriptor(machine).data
            /\ Payload(Regular(3)) = build_null_thunk_data(name, machine).data
            /\ \A k \in 1..n :
                  Payload(Regular(3 + k)) = short_import_record(name, imports[k].import, machine)
            /\ SecondLinker.members = 3 + n

\* a built archive of two equal entries
C2_Witness ==
    /\ Built
    /\ Len(imports) = 2
    /\ imports[1] = imports[2]
    /\ Len(Archive) = 7

\* C3: the symbol index binds exactly the two names <exposed_name> and
\* __imp_<exposed_name> to the member of every entry.
C3_SymbolExportShape ==
    Built =>
        \A k \in 1..Len(imports) :
            { symbols[i][1] : i \in { j \in 1..Len(symbols) : symbols[j][2] = 3 + k } }
                = { imports[k].rust_name, IMP_PREFIX \o imports[k].rust_name }

\* C4: the short-import record of an Ordinal(v) entry has ordinal field v, an
\* empty imported name and type field 0; that of a Name(s) entry has ordinal
\* field 0, the imported name s and type field 4; the size field of both is
\* the length of the two null-terminated strings that end the record.
C4_OrdinalNameExclusivity ==
    Built =>
        \A k \in 1..Len(imports) :
            LET rec == Payload(Regular(3 + k))
                import == imports[k].import
                item == RdCStr(rec, 20)
                dll == RdCStr(rec, 20 + Len(item) + 1)
            IN  /\ RdU32LE(rec, 12) = Len(rec) - 20
                /\ Len(rec) = 20 + Len(item) + 1 + Len(dll) + 1
                /\ dll = name
                /\ import.kind = "Ordinal" =>
                      /\ RdU16LE(rec, 16) = import.o
                      /\ item = <<>>
                      /\ RdU16LE(rec, 18) = 0
                /\ import.kind = "Name" =>
                      /\ RdU16LE(rec, 16) = 0
                      /\ item = import.s
                      /\ RdU16LE(rec, 18) = 4

\* a built archive with an entry by ordinal and an entry by name
C4_Witness ==
    /\ Built
    /\ \E k \in 1..Len(imports) :
          imports[k].import.kind = "Ordinal" /\ RdU16LE(Payload(Regular(3 + k)), 16) = 65535
    /\ \E k \in 1..Len(imports) :
          imports[k].import.kind = "Name" /\ RdU16LE(Payload(Regular(3 + k)), 18) = 4

\* the place of a name in the insertion order of the symbol index
InsertionPlace(nm) == CHOOSE i \in 1..Len(symbols) : symbols[i][1] = nm

\* C5: the second linker member lists the member offsets in member order
\* and the symbols sorted by owning member, symbols of one member in
\* insertion order; the k-th index is the 1-based position of the member
\* the k-th name is bound to.
C5_MemberOrdinalConsistency ==
    Built =>
        LET sl == SecondLinker
        IN  /\ sl.members = Len(sections)
            /\ \A i \in 1..sl.members : sl.offsets[i] = Regular(i).at
            /\ sl.n_symbols = Len(symbols)
            /\ { sl.names[k] : k \in 1..sl.n_symbols } = { symbols[i][1] : i \in 1..Len(symbols) }
            /\ \A k \in 1..sl.n_symbols :
                  /\ IndexMapHas(symbols, sl.names[k])
                  /\ sl.indices[k] = IndexMapGet(symbols, sl.names[k])
            /\ \A k, l \in 1..sl.n_symbols :
                  k < l =>
                     \/ sl.indices[k] < sl.indices[l]
                     \/ /\ sl.indices[k] = sl.indices[l]
                        /\ InsertionPlace(sl.names[k]) < InsertionPlace(sl.names[l])

\* a built archive whose symbol index is not in member order as inserted
C5_Witness ==
    /\ Built
    /\ \E i, j \in 1..Len(symbols) : i < j /\ symbols[i][2] > symbols[j][2]
    /\ SecondLinker.indices[SecondLinker.n_symbols] = Len(sections)

\* the payload lengths of the emitted units: the two linker members, then the sections
UnitLen(u) ==
    LET table_len == symbol_table_len(symbols)
    IN  IF u = 1 THEN first_linker_len(Len(symbols), table_len)
        ELSE IF u = 2 THEN second_linker_len(Len(sections), Len(symbols), table_len)
        ELSE Len(sections[u - 2])

\* where the unit after unit u begins: the next header, or the end of the archive
UnitEnd(u) == IF u < Len(starts) THEN starts[u + 1] ELSE Len(import_lib)

\* C6: every unit starts at an even position and the archive has even
\* length; an odd-length payload is followed by one zero byte, an
\* even-length payload by no pad byte.
C6_EvenAlignment ==
    Built =>
        /\ Len(import_lib) % 2 = 0
        /\ Len(starts) = 2 + Len(sections)
        /\ \A u \in 1..Len(starts) :
              LET end == starts[u] + ARCHIVE_HEADER_LEN + UnitLen(u)
              IN  /\ starts[u] % 2 = 0
                  /\ RdDecimal(SubSeq(import_lib, starts[u] + 49, starts[u] + 58)) = UnitLen(u)
                  /\ UnitLen(u) % 2 = 1 => /\ UnitEnd(u) = end + 1
                                          /\ import_lib[end + 1] = 0
                  /\ UnitLen(u) % 2 = 0 => UnitEnd(u) = end

\* a built archive with an odd-length and an even-length short import
C6_Witness ==
    /\ Built
    /\ \E u \in 6..Len(starts) : UnitLen(u) % 2 = 1 /\ import_lib[UnitEnd(u)] = 0
    /\ \E u \in 6..Len(starts) : UnitLen(u) % 2 = 0

\* the object members of the archive with the positions their parts were written at
ObjectMembers ==
    << build_import_descriptor(name, machine),
       build_null_import_descriptor(machine),
       build_null_thunk_data(name, machine) >>

\* C9: in each object member the symbol-table pointer of the file header,
\* the raw-data pointer of every section header and the relocation pointer
\* of .idata$2 are the positions at which those parts were written.
C9_ObjectInternalOffsets ==
    Built =>
        \A i \in 1..3 :
            LET d == ObjectMembers[i]
                blob == sections[i]
            IN  /\ blob = d.data
                /\ RdU32LE(blob, 8) = d.symtab_at
                /\ \A j \in 1..d.n_sections :
                      RdU32LE(blob, COFF_HEADER_LEN + 40 * (j - 1) + 20) = d.raw_at[j]
                /\ i = 1 => RdU32LE(blob, COFF_HEADER_LEN + 24) = d.reloc_at

\* C10: every string-table offset of the import descriptor's symbol table
\* is the position, counted from the string-table length field, of the
\* first byte of that symbol's own name.
C10_StringTableOffsets ==
    Built =>
        LET d == ObjectMembers[1]
            blob == sections[1]
        IN  \A i \in 1..Len(d.offset_syms) :
                LET entry == d.symtab_at + 18 * (d.offset_syms[i] - 1)
                    o == RdU32LE(blob, entry + 4)
                IN  /\ RdU32LE(blob, entry) = 0
                    /\ RdCStr(blob, d.strtab_at + o) = d.offset_names[i]
                    /\ (o = 4 \/ blob[d.strtab_at + o] = 0)

\* C7: write_symbol fails on a literal name that is not exactly 8 bytes
\* long, shorter or longer; it emits no entry for it.
C7_MalformedLiteralName ==
    (/\ pc = "sym_done"
     /\ sym_arg.nm.kind = "Name"
     /\ Len(sym_arg.nm.name) # 8) => ~sym_ret.ok

\* C8: a build in which a member index does not fit its 2-byte slot, or an
\* offset or count its 4-byte slot, returns an error; a returned archive
\* stores every such field unreduced.
C8_EncodingOverflow ==
    pc = "wide_done" =>
        /\ wide_ret.members > 65535 => ~wide_ret.ok
        /\ wide_ret.ok =>
              /\ wide_ret.last_index_field = wide_ret.members
              /\ wide_ret.member_count_field = wide_ret.members
              /\ wide_ret.last_offset_field = wide_ret.last_offset

====
